---- MODULE Spec2Model ----
(***************************************************************************)
(* Audience PTZ camera controller: the frontend command layer.             *)
(*                                                                         *)
(*   usePtzControl  (throttle, moveRelative, moveAbsolute, zoom,           *)
(*                   recallPreset, home, continuousMove, stop,             *)
(*                   handleVideoClick, handleVideoScroll)                  *)
(*   useEndpoints   (create/delete/setActive endpoint)                     *)
(*   usePresets + PresetList (create/delete preset, editor, confirmation)  *)
(*   useAppStore    (the zustand store the hooks write to)                 *)
(*                                                                         *)
(* Numbers are fixed-point: the real value v is held as v * Unit.          *)
(* Every `await invoke(...)` is a pending call in `inflight`; its          *)
(* continuation is a separate step, so replies may arrive in any order.    *)
(***************************************************************************)
EXTENDS Integers, Sequences, FiniteSets, TLC

(* ---------------- bounds of the model ---------------- *)
MaxCalls == 2          \* hook calls issued in one behaviour
MaxPresetCalls == 3    \* of which createPreset / deletePreset calls may be the last
MaxPending == 2        \* requests unanswered when a preset call is issued
MaxSelects == 3        \* sources selected in the source picker in one behaviour
MaxSettingCalls == 3   \* slider changes of the settings panel in one behaviour
MaxTime == 200         \* last instant (ms) of the clock
Quantum == 50          \* granularity of the clock (ms)

(* ---------------- program constants ---------------- *)
MIN_COMMAND_INTERVAL_MS == 100
Unit == 100            \* fixed-point scale: 1.0 is held as Unit

VARIABLES
    \* usePtzControl / Date.now()
    now,               \* Date.now()
    lastCommandTime,   \* lastCommandTime.current of every mounted usePtzControl()
    \* useAppStore
    mode,
    currentPosition,
    presets,
    activePresetId,
    endpoints,
    activeEndpointId,
    \* PresetList component state
    showEditor,
    deleteConfirmId,
    \* pending invoke() promises and the commands written to the backend
    inflight,
    sent,
    nextId,
    \* backend (Tauri commands)
    camPos,            \* position held by the camera
    bePresets,         \* presets held by the backend
    beEndpoints,       \* endpoints held by the backend
    beActive,          \* endpoint the dispatcher is bound to
    transports,        \* live transport clients
    bePc,              \* id of the set_active_endpoint request being served, or 0
    wroteTo,           \* transport the last PTZ command was written to
    \* observation of the step just taken
    call,              \* the hook call issued by the step, if any
    thrown,            \* TRUE when the step rejected the promise of its caller
    \* observers of the two-move scenario
    p0,                \* currentPosition before the first call
    moves,             \* the accepted moveRelative calls, in the order issued
    \* useVideoFeed
    activeVideoSource, \* useAppStore.activeVideoSource
    isConnected,       \* useAppStore.isConnected
    reconnectTimer,    \* source the running reconnect interval closed over
    pendingMedia,      \* pending getUserMedia / start_mjpeg_stream / media load
    attached,          \* source the video element is attached to
    available,         \* sources that can deliver video (environment)
    streamRef,         \* streamRef.current: the MediaStream held, or NoStream
    liveStreams,       \* MediaStreams acquired whose tracks are running
    attempts,          \* connect effects run so far
    settings,          \* useAppStore.settings
    beSettings,        \* backend: the settings it holds
    pendingSettings,   \* update_settings calls whose promise has not settled
    settingCalls,      \* updateSetting calls made so far
    \* the utility functions of ptz-math.ts and overlay-geometry.ts
    fnArgs,            \* the arguments of the call
    fnResult,          \* the value returned, once the call was made
    \* JoystickPad component state
    active,            \* useState(false): the pad is being dragged
    lastSendTime       \* lastSendTime.current

vars == <<now, lastCommandTime, mode, currentPosition, presets, activePresetId,
          endpoints, activeEndpointId, showEditor, deleteConfirmId,
          inflight, sent, nextId, camPos, bePresets, beEndpoints, beActive,
          transports, bePc, wroteTo, call, thrown, p0, moves,
          activeVideoSource, isConnected, reconnectTimer, pendingMedia,
          attached, available, streamRef, liveStreams, attempts,
          settings, beSettings, pendingSettings, settingCalls,
          fnArgs, fnResult, active, lastSendTime>>

ptzVars == <<now, lastCommandTime, currentPosition, inflight, sent, nextId,
             camPos, wroteTo, call, thrown>>
presetVars == <<presets, activePresetId, showEditor, deleteConfirmId, bePresets>>
endpointVars == <<endpoints, activeEndpointId, beEndpoints, beActive,
                  transports, bePc>>
obsVars == <<p0, moves>>
videoVars == <<activeVideoSource, isConnected, reconnectTimer, pendingMedia,
               attached, available, streamRef, liveStreams, attempts>>
fnVars == <<fnArgs, fnResult>>
settingVars == <<settings, beSettings, pendingSettings, settingCalls>>
panelVars == <<active, lastSendTime, settingVars>>

(* Components that mount usePtzControl(); each owns its own useRef(0). *)
Instances == {"PtzControls", "KeyboardShortcuts", "VideoCanvas", "PresetList", "JoystickPad",
              "PresetOverlay"}

NoId == "none"

Max(a, b) == IF a >= b THEN a ELSE b
Min(a, b) == IF a <= b THEN a ELSE b

(* variant: the two bounds applied the other way round *)
clampPtz_swapped(value, min, max) == Min(min, Max(max, value))

(* Math.max(min, Math.min(max, value)) *)
clampPtz(value, min, max) == Max(min, Min(max, value))

Pos(p, t, z) == [pan |-> p, tilt |-> t, zoom |-> z]

InRange(pos) ==
    /\ pos.pan >= -Unit /\ pos.pan <= Unit
    /\ pos.tilt >= -Unit /\ pos.tilt <= Unit
    /\ pos.zoom >= 0 /\ pos.zoom <= Unit

(* ---------------- inputs drawn by the handlers ---------------- *)
Modes == {"calibration", "operation"}
ArrowKeys == {"ArrowRight"}
Modifiers == {"ctrl"}
Buttons == {"Left"}
ZoomControls == {"slider"}
ZoomKeys == {"+"}
AbsTargets == {Pos(2 * Unit, 0, Unit + Unit \div 2)}
StartPositions == {Pos(0, 0, 0), Pos(Unit - Unit \div 20, 0, 0)}
WheelDeltas == {-100}

(* The presets loaded in the store and held by the backend. *)
Preset(id, p, t, z, col) == [id |-> id, pan |-> p, tilt |-> t, zoom |-> z, color |-> col]
PRESET_COLORS ==
    <<"#3b82f6", "#ef4444", "#22c55e", "#f59e0b", "#8b5cf6",
      "#ec4899", "#06b6d4", "#f97316", "#14b8a6", "#6366f1",
      "#84cc16", "#e11d48", "#0ea5e9", "#a855f7", "#d946ef">>

LoadedPresets == <<Preset("p1", Unit \div 2, 0, Unit \div 2, PRESET_COLORS[1])>>

(* ids the preset store gives to the presets it creates, by request *)
CreatedPresetIds == <<"p2", "p3", "p4", "p5">>

(* The endpoints loaded in the store and held by the backend. *)
Endpoint(id) == [id |-> id, name |-> "camera"]
EditedName == "renamed"
LoadedEndpoints == <<Endpoint("e1"), Endpoint("e2")>>

(* video sources of the source picker, and "no source" *)
VideoSource(id, type) == [id |-> id, type |-> type]

VideoSources == {VideoSource("cam", "local"), VideoSource("ndi1", "ndi")}

NoSource == VideoSource(NoId, "none")

(* the MediaStream a getUserMedia call of the n-th connect effect returned *)
Stream(id, by, n) == [src |-> id, by |-> by, n |-> n]
NoStream == Stream(NoId, "none", 0)

(* settings of useAppStore *)
click_sensitivity == Unit \div 10
scroll_sensitivity == Unit \div 20

(* canvas of the e2e/unit tests *)
canvasWidth == 800
canvasHeight == 600
Clicks == {<<canvasWidth, canvasHeight \div 2>>}

(* ---------------- records ---------------- *)
NoCall == [op |-> "none", inst |-> "none"]

(* what a callback of usePresets closed over when it was called *)
Capture(list, activeId) == [presets |-> list, activePresetId |-> activeId]

NoCapture == Capture(<<>>, NoId)

Req(id, op, cmd, i, a, target, handled, ok, pos, cap) ==
    [id |-> id, op |-> op, cmd |-> cmd, inst |-> i, a |-> a, target |-> target,
     handled |-> handled, ok |-> ok, pos |-> pos, cap |-> cap]

Wire(cmd, i) == [cmd |-> cmd, inst |-> i]

(* Integer quotient rounded to the nearest integer (fixed-point product). *)
RoundDiv(a, b) ==
    IF a >= 0 THEN (2 * a + b) \div (2 * b) ELSE -((2 * (-a) + b) \div (2 * b))

(* ---------------- exact arithmetic on fractions ---------------- *)
RECURSIVE GCD(_, _)
GCD(a, b) == IF b = 0 THEN a ELSE GCD(b, a % b)

Abs(a) == IF a < 0 THEN -a ELSE a

(* the fraction n / d in lowest terms, with a positive denominator *)
Rat(n, d) ==
    LET g == GCD(Abs(n), Abs(d))
        sgn == IF d < 0 THEN -1 ELSE 1
    IN  [num |-> sgn * (n \div g), den |-> sgn * (d \div g)]

FromInt(n) == Rat(n, 1)
FromFixed(v) == Rat(v, Unit)
RAdd(a, b) == Rat(a.num * b.den + b.num * a.den, a.den * b.den)
RSub(a, b) == Rat(a.num * b.den - b.num * a.den, a.den * b.den)
RMul(a, b) == Rat(a.num * b.num, a.den * b.den)
RDiv(a, b) == Rat(a.num * b.den, a.den * b.num)
RNeg(a) == Rat(-a.num, a.den)
RLt(a, b) == a.num * b.den < b.num * a.den
RLe(a, b) == a.num * b.den <= b.num * a.den
RMax(a, b) == IF RLt(a, b) THEN b ELSE a
RMin(a, b) == IF RLt(a, b) THEN a ELSE b

NoArgs == [fn |-> "none"]
NoResult == [fn |-> "none"]

(* AppSettings as the store creates it, each number held as number * Unit *)
DefaultSettings ==
    [click_sensitivity |-> 10, scroll_sensitivity |-> 5,
     overlay_opacity |-> 30, camera_fov_degrees |-> 60 * Unit]

(* the settings the backend starts with *)
MockSettings == [DefaultSettings EXCEPT !.camera_fov_degrees = 65 * Unit]

(* a slider value: parseFloat gives a number, which may be NaN *)
Number(v) == [finite |-> TRUE, v |-> v]
NaN == [finite |-> FALSE, v |-> 0]

(* ---------------- backend: PTZ commands ---------------- *)
FindPreset(list, id) ==
    IF \E k \in DOMAIN list : list[k].id = id
    THEN {list[CHOOSE k \in DOMAIN list : list[k].id = id]}
    ELSE {}

BackendPtz(cmd, a, target, cam, plist) ==
    CASE cmd = "ptz_move_relative" ->
            Pos(clampPtz(cam.pan + a[1], -Unit, Unit),
                clampPtz(cam.tilt + a[2], -Unit, Unit), cam.zoom)
      [] cmd = "ptz_move_absolute" -> Pos(a[1], a[2], a[3])
      [] cmd = "ptz_zoom" -> [cam EXCEPT !.zoom = clampPtz(a[1], 0, Unit)]
      [] cmd = "ptz_recall_preset" ->
            IF FindPreset(plist, target) = {} THEN cam
            ELSE LET p == CHOOSE q \in FindPreset(plist, target) : TRUE
                 IN  Pos(p.pan, p.tilt, p.zoom)
      [] OTHER -> cam

(* invoke(cmd, args): the command is written to the backend, which handles *)
(* it (ok) or rejects it (~ok); the promise stays pending in `inflight`.   *)
PtzInvoke(pending, id, op, cmd, i, a, target, ok) ==
    /\ inflight' = pending \cup
           {Req(id, op, cmd, i, a, target, TRUE, ok,
                IF cmd = "ptz_get_position" THEN camPos ELSE Pos(0, 0, 0), NoCapture)}
    /\ sent' = Append(sent, Wire(cmd, i))
    /\ camPos' = IF ok THEN BackendPtz(cmd, a, target, camPos, bePresets) ELSE camPos
    /\ wroteTo' = IF ok THEN beActive ELSE wroteTo

(* a command succeeds only when the dispatcher is bound to a live transport *)
Outcomes == IF beActive \in transports THEN BOOLEAN ELSE {FALSE}

(* ---------------- useAppStore ---------------- *)
setCurrentPosition(pos) == currentPosition' = pos

(* ---------------- usePtzControl ---------------- *)
throttle(i) == now - lastCommandTime[i] >= MIN_COMMAND_INTERVAL_MS

IssuedWithin(op, i, max) ==
    /\ nextId <= max
    /\ call' = [op |-> op, inst |-> i]
    /\ nextId' = nextId + 1
    /\ thrown' = FALSE

Issued(op, i) == IssuedWithin(op, i, MaxCalls)

(* variant: the timestamp advanced by a dropped command too *)
Throttled_stamp(i, op, cmd, a) ==
    IF throttle(i)
    THEN /\ lastCommandTime' = [lastCommandTime EXCEPT ![i] = now]
         /\ \E ok \in Outcomes : PtzInvoke(inflight, nextId, op, cmd, i, a, NoId, ok)
    ELSE /\ lastCommandTime' = [lastCommandTime EXCEPT ![i] = now]
         /\ UNCHANGED <<inflight, sent, camPos, wroteTo>>

Throttled(i, op, cmd, a) ==
    IF throttle(i)
    THEN /\ lastCommandTime' = [lastCommandTime EXCEPT ![i] = now]
         /\ \E ok \in Outcomes : PtzInvoke(inflight, nextId, op, cmd, i, a, NoId, ok)
    ELSE UNCHANGED <<lastCommandTime, inflight, sent, camPos, wroteTo>>

moveRelative(i, panDelta, tiltDelta) ==
    /\ Issued("moveRelative", i)
    /\ Throttled(i, "moveRelative", "ptz_move_relative", <<panDelta, tiltDelta>>)
    /\ UNCHANGED <<now, currentPosition>>

moveAbsolute(i, pan, tilt, zoomTarget) ==
    /\ Issued("moveAbsolute", i)
    /\ Throttled(i, "moveAbsolute", "ptz_move_absolute", <<pan, tilt, zoomTarget>>)
    /\ UNCHANGED <<now, currentPosition>>

zoom(i, zoomLevel) ==
    /\ Issued("zoom", i)
    /\ Throttled(i, "zoom", "ptz_zoom", <<zoomLevel>>)
    /\ UNCHANGED <<now, currentPosition>>

recallPreset(i, presetId) ==
    /\ Issued("recallPreset", i)
    /\ \E ok \in Outcomes : PtzInvoke(inflight, nextId, "recallPreset", "ptz_recall_preset", i, <<>>, presetId, ok)
    /\ UNCHANGED <<now, lastCommandTime, currentPosition>>

home(i) ==
    /\ Issued("home", i)
    /\ \E ok \in Outcomes : PtzInvoke(inflight, nextId, "home", "ptz_home", i, <<>>, NoId, ok)
    /\ UNCHANGED <<now, lastCommandTime, currentPosition>>

continuousMove(i, panSpeed, tiltSpeed) ==
    /\ Issued("continuousMove", i)
    /\ Throttled(i, "continuousMove", "ptz_continuous_move", <<panSpeed, tiltSpeed>>)
    /\ UNCHANGED <<now, currentPosition>>

(* variant: stop going through the throttle like a move *)
stop_throttled(i) ==
    /\ Issued("stop", i)
    /\ Throttled(i, "stop", "ptz_stop", <<>>)
    /\ UNCHANGED <<now, currentPosition>>

stop(i) ==
    /\ Issued("stop", i)
    /\ \E ok \in Outcomes : PtzInvoke(inflight, nextId, "stop", "ptz_stop", i, <<>>, NoId, ok)
    /\ UNCHANGED <<now, lastCommandTime, currentPosition>>

(* variant: the zoom factor falls half as fast with the zoom *)
zoomFactor_half(currentZoom) ==
    IF currentZoom > 0
    THEN RDiv(FromInt(1), RAdd(FromInt(1), RMul(FromFixed(currentZoom), FromInt(2))))
    ELSE FromInt(1)

(* calculateClickVector: zoom-aware scaling *)
zoomFactor(currentZoom) ==
    IF currentZoom > 0
    THEN RDiv(FromInt(1), RAdd(FromInt(1), RMul(FromFixed(currentZoom), FromInt(4))))
    ELSE FromInt(1)

(* sensitivity and currentZoom are given in hundredths; the deltas are exact *)
calculateClickVector(clickX, clickY, w, h, sensitivity, currentZoom) ==
    LET centerX == Rat(w, 2)
        centerY == Rat(h, 2)
        deltaX == RDiv(RSub(FromInt(clickX), centerX), centerX)
        deltaY == RDiv(RSub(centerY, FromInt(clickY)), centerY)
    IN  [panDelta  |-> RMul(RMul(deltaX, FromFixed(sensitivity)), zoomFactor(currentZoom)),
         tiltDelta |-> RMul(RMul(deltaY, FromFixed(sensitivity)), zoomFactor(currentZoom))]

(* a number rounded to the hundredths the position is held in *)
Fixed(r) == RoundDiv(r.num * Unit, r.den)

handleVideoClick(i, clickX, clickY, w, h) ==
    LET pos == currentPosition
        v == calculateClickVector(clickX, clickY, w, h, click_sensitivity, pos.zoom)
    IN  moveRelative(i, Fixed(v.panDelta), Fixed(v.tiltDelta))

handleVideoScroll(i, deltaY) ==
    /\ Issued("handleVideoScroll", i)
    /\ IF throttle(i)
       THEN LET pos == currentPosition
                zoomDelta == RoundDiv(-deltaY * scroll_sensitivity, 100)
                newZoom == clampPtz(pos.zoom + zoomDelta, 0, Unit)
            IN  /\ lastCommandTime' = [lastCommandTime EXCEPT ![i] = now]
                /\ \E ok \in Outcomes : PtzInvoke(inflight, nextId, "handleVideoScroll", "ptz_zoom", i, <<newZoom>>, NoId, ok)
                /\ setCurrentPosition([pos EXCEPT !.zoom = newZoom])
       ELSE UNCHANGED <<lastCommandTime, inflight, sent, camPos, wroteTo, currentPosition>>
    /\ UNCHANGED now

(* ---- continuations: the code after `await invoke(...)` and the catch ---- *)
(* the promise of the hook function settles: `rethrown` when the catch   *)
(* block rethrows (or there is none), so that the caller sees the error  *)
Done(rethrown) ==
    /\ thrown' = rethrown
    /\ call' = NoCall

Settled(c) ==
    /\ inflight' = inflight \ {c}
    /\ UNCHANGED <<now, lastCommandTime, sent, nextId, camPos, wroteTo>>

moveRelativeReply(c) ==
    /\ c.op = "moveRelative"
    /\ IF c.ok
       THEN LET pos == currentPosition
            IN  setCurrentPosition(Pos(Max(-Unit, Min(Unit, pos.pan + c.a[1])),
                                       Max(-Unit, Min(Unit, pos.tilt + c.a[2])),
                                       pos.zoom))
       ELSE UNCHANGED currentPosition
    /\ Done(FALSE)
    /\ Settled(c)

moveAbsoluteReply(c) ==
    /\ c.op = "moveAbsolute"
    /\ IF c.ok
       THEN setCurrentPosition(Pos(c.a[1], c.a[2], c.a[3]))
       ELSE UNCHANGED currentPosition
    /\ Done(FALSE)
    /\ Settled(c)

zoomReply(c) ==
    /\ c.op = "zoom"
    /\ IF c.ok
       THEN LET pos == currentPosition
            IN  setCurrentPosition([pos EXCEPT !.zoom = c.a[1]])
       ELSE UNCHANGED currentPosition
    /\ Done(FALSE)
    /\ Settled(c)

homeReply(c) ==
    /\ c.op = "home"
    /\ IF c.ok
       THEN setCurrentPosition(Pos(0, 0, 0))
       ELSE UNCHANGED currentPosition
    /\ Done(FALSE)
    /\ Settled(c)

(* stop, and the .catch of handleVideoScroll: nothing but the log *)
logOnlyReply(c) ==
    /\ c.op \in {"stop", "handleVideoScroll", "continuousMove"}
    /\ UNCHANGED currentPosition
    /\ Done(FALSE)
    /\ Settled(c)

(* recallPreset after `await invoke("ptz_recall_preset")` *)
recallPresetReply(c) ==
    /\ c.op = "recallPreset" /\ c.cmd = "ptz_recall_preset"
    /\ IF c.ok
       THEN /\ \E ok \in BOOLEAN :
                 PtzInvoke(inflight \ {c}, c.id, "recallPreset", "ptz_get_position",
                           c.inst, <<>>, NoId, ok)
            /\ Done(FALSE)
       ELSE /\ inflight' = inflight \ {c}
            /\ Done(FALSE)
            /\ UNCHANGED <<sent, camPos, wroteTo>>
    /\ UNCHANGED <<now, lastCommandTime, nextId, currentPosition>>

(* variant: the reply is merged with the optimistic value, keeping its zoom *)
getPositionReply_merge(c) ==
    /\ c.op = "recallPreset" /\ c.cmd = "ptz_get_position"
    /\ IF c.ok
       THEN /\ setCurrentPosition([c.pos EXCEPT !.zoom = currentPosition.zoom])
            /\ Done(FALSE)
       ELSE /\ UNCHANGED currentPosition
            /\ Done(FALSE)
    /\ Settled(c)

(* recallPreset after `await invoke("ptz_get_position")` *)
getPositionReply(c) ==
    /\ c.op = "recallPreset" /\ c.cmd = "ptz_get_position"
    /\ IF c.ok
       THEN /\ setCurrentPosition(c.pos)
            /\ Done(FALSE)
       ELSE /\ UNCHANGED currentPosition
            /\ Done(FALSE)
    /\ Settled(c)

(* ---------------- the components ---------------- *)
step == Unit \div 20                      \* PtzControls: const step = 0.05

FrameUI == UNCHANGED <<mode, presetVars, endpointVars, videoVars, panelVars, fnVars>>
Frame == FrameUI /\ UNCHANGED obsVars

(* Date.now() advances *)
Tick ==
    /\ now + Quantum <= MaxTime
    /\ now' = now + Quantum
    /\ UNCHANGED <<lastCommandTime, currentPosition, inflight, sent, nextId,
                   camPos, wroteTo, call, thrown>>
    /\ Frame

(* Toolbar: the Calibration / Operation buttons *)
SetMode ==
    /\ \E m \in Modes : mode' = m
    /\ call' = NoCall /\ thrown' = FALSE
    /\ UNCHANGED <<now, lastCommandTime, currentPosition, inflight, sent, nextId, camPos, wroteTo>>
    /\ UNCHANGED <<presetVars, endpointVars, obsVars, videoVars, panelVars, fnVars>>

(* PtzControls: Up / Left / Stop / Right / Down *)
ButtonDelta(b) ==
    CASE b = "Up" -> <<0, step>>
      [] b = "Left" -> <<-step, 0>>
      [] b = "Stop" -> <<0, 0>>
      [] b = "Right" -> <<step, 0>>
      [] b = "Down" -> <<0, -step>>

PtzButtonClick ==
    \E b \in Buttons : moveRelative("PtzControls", ButtonDelta(b)[1], ButtonDelta(b)[2])

PtzButton ==
    /\ PtzButtonClick
    /\ Frame

(* PtzControls: zoom - / slider / + *)
SliderValues == {Unit}

PtzZoom ==
    /\ \E c \in ZoomControls :
         CASE c = "minus" -> zoom("PtzControls", Max(0, currentPosition.zoom - step))
           [] c = "plus" -> zoom("PtzControls", Min(Unit, currentPosition.zoom + step))
           [] c = "slider" -> \E v \in SliderValues : zoom("PtzControls", v)
    /\ Frame

(* useKeyboardShortcuts *)
KeyStep(m) ==
    CASE m = "shift" -> Unit \div 100
      [] m = "ctrl" -> (15 * Unit) \div 100
      [] OTHER -> Unit \div 20

KeyArrowDown ==
    \E k \in ArrowKeys, m \in Modifiers :
         CASE k = "ArrowUp" -> moveRelative("KeyboardShortcuts", 0, KeyStep(m))
           [] k = "ArrowDown" -> moveRelative("KeyboardShortcuts", 0, -KeyStep(m))
           [] k = "ArrowLeft" -> moveRelative("KeyboardShortcuts", -KeyStep(m), 0)
           [] k = "ArrowRight" -> moveRelative("KeyboardShortcuts", KeyStep(m), 0)

KeyArrow ==
    /\ KeyArrowDown
    /\ Frame

KeyZoom ==
    /\ \E k \in ZoomKeys :
         LET pos == currentPosition
         IN  IF k = "-"
             THEN zoom("KeyboardShortcuts", Max(0, pos.zoom - Unit \div 20))
             ELSE zoom("KeyboardShortcuts", Min(Unit, pos.zoom + Unit \div 20))
    /\ Frame

KeySpace ==
    /\ stop("KeyboardShortcuts")
    /\ Frame

KeyHome ==
    /\ home("KeyboardShortcuts")
    /\ Frame

KeyDigit ==
    /\ \E idx \in 1..9 :
         /\ idx <= Len(presets)
         /\ recallPreset("KeyboardShortcuts", presets[idx].id)
    /\ Frame

(* VideoCanvas.onCanvasClick / onCanvasWheel *)
(* variant: the click pans the camera in either mode *)
CanvasClick_anyMode ==
    /\ \E xy \in Clicks :
         handleVideoClick("VideoCanvas", xy[1], xy[2], canvasWidth, canvasHeight)
    /\ Frame

CanvasClick ==
    /\ IF mode = "operation"
       THEN \E xy \in Clicks :
                handleVideoClick("VideoCanvas", xy[1], xy[2], canvasWidth, canvasHeight)
       ELSE /\ call' = NoCall /\ thrown' = FALSE
            /\ UNCHANGED <<now, lastCommandTime, currentPosition, inflight, sent, nextId,
                           camPos, wroteTo>>
    /\ Frame

CanvasWheel ==
    /\ \E deltaY \in WheelDeltas : handleVideoScroll("VideoCanvas", deltaY)
    /\ Frame

(* PresetList.handlePresetClick *)
PresetListClick ==
    /\ \E k \in DOMAIN presets :
         /\ activePresetId' = presets[k].id
         /\ IF mode = "operation"
            THEN recallPreset("PresetList", presets[k].id)
            ELSE /\ call' = NoCall /\ thrown' = FALSE
                 /\ UNCHANGED <<now, lastCommandTime, currentPosition, inflight,
                                sent, nextId, camPos, wroteTo>>
    /\ UNCHANGED <<mode, presets, showEditor, deleteConfirmId, bePresets, endpointVars, obsVars,
                   videoVars, panelVars, fnVars>>

(* moveAbsolute is exported by the hook; no component of src/ calls it *)
CallMoveAbsolute ==
    /\ \E t \in AbsTargets : moveAbsolute("PtzControls", t.pan, t.tilt, t.zoom)
    /\ Frame

Reply ==
    /\ \E c \in inflight :
         \/ moveRelativeReply(c)
         \/ moveAbsoluteReply(c)
         \/ zoomReply(c)
         \/ homeReply(c)
         \/ logOnlyReply(c)
         \/ recallPresetReply(c)
         \/ getPositionReply(c)
    /\ Frame

(* ---------------- specification: the PTZ command layer ---------------- *)
Booted ==
    /\ now = MIN_COMMAND_INTERVAL_MS
    /\ lastCommandTime = [i \in Instances |-> 0]
    /\ mode = "calibration"
    /\ currentPosition \in StartPositions
    /\ camPos = currentPosition
    /\ presets = LoadedPresets
    /\ bePresets = LoadedPresets
    /\ activePresetId = NoId
    /\ endpoints = LoadedEndpoints
    /\ activeEndpointId = NoId
    /\ beEndpoints = LoadedEndpoints
    /\ beActive = "e1"
    /\ transports = {"e1"}
    /\ bePc = 0
    /\ wroteTo = NoId
    /\ p0 = currentPosition
    /\ moves = <<>>
    /\ showEditor = FALSE
    /\ deleteConfirmId = NoId
    /\ inflight = {}
    /\ sent = <<>>
    /\ nextId = 1
    /\ call = NoCall
    /\ thrown = FALSE
    /\ activeVideoSource = NoSource
    /\ isConnected = FALSE
    /\ reconnectTimer = NoSource
    /\ pendingMedia = {}
    /\ attached = NoId
    /\ available = {v.id : v \in VideoSources}
    /\ streamRef = NoStream
    /\ liveStreams = {}
    /\ attempts = 0
    /\ active = FALSE
    /\ lastSendTime = 0
    /\ settings = DefaultSettings
    /\ beSettings = MockSettings
    /\ pendingSettings = {}
    /\ settingCalls = 0

Init ==
    /\ Booted
    /\ fnArgs = NoArgs
    /\ fnResult = NoResult

Next ==
    \/ Tick
    \/ SetMode
    \/ PtzButton
    \/ PtzZoom
    \/ KeyArrow
    \/ KeyZoom
    \/ KeySpace
    \/ KeyHome
    \/ KeyDigit
    \/ CanvasClick
    \/ CanvasWheel
    \/ PresetListClick
    \/ CallMoveAbsolute
    \/ Reply

Spec == Init /\ [][Next]_vars

(* ---------------- useEndpoints / EndpointManager ---------------- *)
NewEndpointIds == {"e3"}

Ids(list) == {list[k].id : k \in DOMAIN list}

EndpointFrame ==
    UNCHANGED <<now, lastCommandTime, mode, currentPosition, camPos, wroteTo,
                presetVars, obsVars, videoVars, panelVars, fnVars>>

EndpointInvoke(op, cmd, target) ==
    /\ Issued(op, "EndpointManager")
    /\ inflight' = inflight \cup
           {Req(nextId, op, cmd, "EndpointManager", <<>>, target, FALSE, TRUE,
                Pos(0, 0, 0), NoCapture)}
    /\ sent' = Append(sent, Wire(cmd, "EndpointManager"))

createEndpoint(endpoint) == EndpointInvoke("createEndpoint", "create_endpoint", endpoint.id)

deleteEndpoint(endpointId) == EndpointInvoke("deleteEndpoint", "delete_endpoint", endpointId)

updateEndpoint(endpoint) == EndpointInvoke("updateEndpoint", "update_endpoint", endpoint.id)

setActiveEndpoint(endpointId) ==
    EndpointInvoke("setActiveEndpoint", "set_active_endpoint", endpointId)

(* EndpointManager: Save of a new endpoint, Delete (confirmed), Activate *)
SaveNewEndpoint ==
    /\ \E id \in NewEndpointIds :
         /\ id \notin Ids(endpoints)
         /\ \A c \in inflight : c.target # id
         /\ createEndpoint(Endpoint(id))
    /\ UNCHANGED <<endpoints, activeEndpointId, beEndpoints, beActive, transports, bePc>>
    /\ EndpointFrame

(* EndpointManager: Edit, a new name typed, Save *)
SaveEditedEndpoint ==
    /\ \E k \in DOMAIN endpoints :
         updateEndpoint([endpoints[k] EXCEPT !.name = EditedName])
    /\ UNCHANGED <<endpoints, activeEndpointId, beEndpoints, beActive, transports, bePc>>
    /\ EndpointFrame

ClickDeleteEndpoint ==
    /\ \E k \in DOMAIN endpoints : deleteEndpoint(endpoints[k].id)
    /\ UNCHANGED <<endpoints, activeEndpointId, beEndpoints, beActive, transports, bePc>>
    /\ EndpointFrame

ClickActivate ==
    /\ \E k \in DOMAIN endpoints :
         /\ activeEndpointId # endpoints[k].id
         /\ setActiveEndpoint(endpoints[k].id)
    /\ UNCHANGED <<endpoints, activeEndpointId, beEndpoints, beActive, transports, bePc>>
    /\ EndpointFrame

(* continuations of useEndpoints *)
EndpointSettled(c, rethrown) ==
    /\ c.handled
    /\ inflight' = inflight \ {c}
    /\ Done(rethrown)
    /\ UNCHANGED <<sent, nextId, beEndpoints, beActive, transports, bePc>>
    /\ EndpointFrame

createEndpointReply(c) ==
    /\ c.op = "createEndpoint"
    /\ IF c.ok
       THEN LET latest == endpoints
            IN  endpoints' = Append(latest, Endpoint(c.target))
       ELSE UNCHANGED endpoints
    /\ UNCHANGED activeEndpointId
    /\ EndpointSettled(c, ~c.ok)

(* the list with the endpoint `id` replaced by its edited value *)
Renamed(list, id) ==
    [k \in DOMAIN list |-> IF list[k].id = id THEN [list[k] EXCEPT !.name = EditedName]
                                              ELSE list[k]]

updateEndpointReply(c) ==
    /\ c.op = "updateEndpoint"
    /\ IF c.ok
       THEN LET latest == endpoints
            IN  endpoints' = Renamed(latest, c.target)
       ELSE UNCHANGED endpoints
    /\ UNCHANGED activeEndpointId
    /\ EndpointSettled(c, ~c.ok)

(* variant: the list is filtered but the active endpoint id is kept *)
deleteEndpointReply_keepActive(c) ==
    /\ c.op = "deleteEndpoint"
    /\ IF c.ok
       THEN LET latest == endpoints
                keep(e) == e.id # c.target
            IN  /\ endpoints' = SelectSeq(latest, keep)
                /\ UNCHANGED activeEndpointId
       ELSE UNCHANGED <<endpoints, activeEndpointId>>
    /\ EndpointSettled(c, ~c.ok)

deleteEndpointReply(c) ==
    /\ c.op = "deleteEndpoint"
    /\ IF c.ok
       THEN LET latest == endpoints
                keep(e) == e.id # c.target
            IN  /\ endpoints' = SelectSeq(latest, keep)
                /\ activeEndpointId' =
                      IF activeEndpointId = c.target THEN NoId ELSE activeEndpointId
       ELSE UNCHANGED <<endpoints, activeEndpointId>>
    /\ EndpointSettled(c, ~c.ok)

(* variant: the active endpoint is set whether the backend accepted or not *)
setActiveEndpointReply_always(c) ==
    /\ c.op = "setActiveEndpoint"
    /\ activeEndpointId' = c.target
    /\ UNCHANGED endpoints
    /\ EndpointSettled(c, ~c.ok)

setActiveEndpointReply(c) ==
    /\ c.op = "setActiveEndpoint"
    /\ IF c.ok
       THEN activeEndpointId' = c.target
       ELSE UNCHANGED activeEndpointId
    /\ UNCHANGED endpoints
    /\ EndpointSettled(c, ~c.ok)

EndpointReply ==
    \E c \in inflight :
        \/ createEndpointReply(c)
        \/ updateEndpointReply(c)
        \/ deleteEndpointReply(c)
        \/ setActiveEndpointReply(c)

(* ---------------- backend: endpoint commands and the dispatcher ---------------- *)
Handled(c, ok) == inflight' = (inflight \ {c}) \cup {[c EXCEPT !.handled = TRUE, !.ok = ok]}

BackendFrame ==
    /\ call' = NoCall /\ thrown' = FALSE
    /\ UNCHANGED <<endpoints, activeEndpointId, sent, nextId>>
    /\ EndpointFrame

BackendCreateEndpoint(c) ==
    /\ c.cmd = "create_endpoint" /\ ~c.handled /\ bePc = 0
    /\ \E ok \in BOOLEAN :
         /\ beEndpoints' = IF ok THEN Append(beEndpoints, Endpoint(c.target)) ELSE beEndpoints
         /\ Handled(c, ok)
    /\ UNCHANGED <<beActive, transports, bePc>>
    /\ BackendFrame

BackendUpdateEndpoint(c) ==
    /\ c.cmd = "update_endpoint" /\ ~c.handled /\ bePc = 0
    /\ \E ok \in BOOLEAN :
         /\ beEndpoints' = IF ok THEN Renamed(beEndpoints, c.target) ELSE beEndpoints
         /\ Handled(c, ok)
    /\ UNCHANGED <<beActive, transports, bePc>>
    /\ BackendFrame

(* deleting the active endpoint unbinds the dispatcher: Bound -> Idle *)
BackendDeleteEndpoint(c) ==
    /\ c.cmd = "delete_endpoint" /\ ~c.handled /\ bePc = 0
    /\ \E ok \in BOOLEAN :
         /\ IF ok
            THEN LET keep(e) == e.id # c.target
                 IN  /\ beEndpoints' = SelectSeq(beEndpoints, keep)
                     /\ beActive' = IF beActive = c.target THEN NoId ELSE beActive
                     /\ transports' = transports \ {c.target}
            ELSE UNCHANGED <<beEndpoints, beActive, transports>>
         /\ Handled(c, ok)
    /\ UNCHANGED bePc
    /\ BackendFrame

(* variant: the old transport is left open while the new one is built *)
BackendTeardown_keepOld(c) ==
    /\ c.cmd = "set_active_endpoint" /\ ~c.handled /\ bePc = 0
    /\ IF c.target \in Ids(beEndpoints)
       THEN /\ bePc' = c.id
            /\ UNCHANGED <<transports, beActive, inflight>>
       ELSE /\ Handled(c, FALSE)
            /\ UNCHANGED <<transports, beActive, bePc>>
    /\ UNCHANGED beEndpoints
    /\ BackendFrame

(* set_active_endpoint, first half: the old transport is torn down *)
BackendTeardown(c) ==
    /\ c.cmd = "set_active_endpoint" /\ ~c.handled /\ bePc = 0
    /\ IF c.target \in Ids(beEndpoints)
       THEN /\ transports' = {}
            /\ beActive' = NoId
            /\ bePc' = c.id
            /\ UNCHANGED inflight
       ELSE /\ Handled(c, FALSE)
            /\ UNCHANGED <<transports, beActive, bePc>>
    /\ UNCHANGED beEndpoints
    /\ BackendFrame

(* set_active_endpoint, second half: the new transport is constructed *)
BackendConstruct(c) ==
    /\ c.cmd = "set_active_endpoint" /\ ~c.handled /\ bePc = c.id
    /\ transports' = transports \cup {c.target}
    /\ beActive' = c.target
    /\ bePc' = 0
    /\ Handled(c, TRUE)
    /\ UNCHANGED beEndpoints
    /\ BackendFrame

BackendEndpoints ==
    \E c \in inflight :
        \/ BackendCreateEndpoint(c)
        \/ BackendUpdateEndpoint(c)
        \/ BackendDeleteEndpoint(c)
        \/ BackendTeardown(c)
        \/ BackendConstruct(c)

StopReply ==
    /\ \E c \in inflight : c.op = "stop" /\ logOnlyReply(c)
    /\ Frame

NextEndpoints ==
    \/ SaveNewEndpoint
    \/ SaveEditedEndpoint
    \/ ClickDeleteEndpoint
    \/ ClickActivate
    \/ EndpointReply
    \/ BackendEndpoints
    \/ KeySpace
    \/ StopReply

SpecEndpoints == Init /\ [][NextEndpoints]_vars

(* ---------------- usePresets / PresetList ---------------- *)
PresetFrame ==
    UNCHANGED <<now, lastCommandTime, currentPosition, camPos, wroteTo, endpointVars, obsVars,
                videoVars, panelVars, fnVars>>

(* backend: create_preset, delete_preset *)
BackendCreatePreset(id, a, color) ==
    Append(bePresets, Preset(CreatedPresetIds[id], a[1], a[2], a[3], color))

BackendDeletePreset(presetId) ==
    LET keep(p) == p.id # presetId IN SelectSeq(bePresets, keep)

PresetInvoke(op, cmd, a, target, ok) ==
    /\ IssuedWithin(op, "PresetList", MaxPresetCalls)
    /\ Cardinality(inflight) < MaxPending
    /\ inflight' = inflight \cup
           {Req(nextId, op, cmd, "PresetList", a, target, TRUE, ok, Pos(0, 0, 0),
                Capture(presets, activePresetId))}
    /\ sent' = Append(sent, Wire(cmd, "PresetList"))

createPreset(pan, tilt, zoomLevel) ==
    LET color == PRESET_COLORS[(Len(presets) % Len(PRESET_COLORS)) + 1]
    IN  \E ok \in BOOLEAN :
          /\ PresetInvoke("createPreset", "create_preset", <<pan, tilt, zoomLevel>>, color, ok)
          /\ bePresets' = IF ok THEN BackendCreatePreset(nextId, <<pan, tilt, zoomLevel>>, color)
                                ELSE bePresets

deletePreset(presetId) ==
    \E ok \in BOOLEAN :
      /\ PresetInvoke("deletePreset", "delete_preset", <<>>, presetId, ok)
      /\ bePresets' = IF ok THEN BackendDeletePreset(presetId) ELSE bePresets

(* PresetList: "+ Add Preset", rendered in calibration mode *)
handleAddPreset ==
    /\ mode = "calibration"
    /\ showEditor' = TRUE
    /\ call' = NoCall /\ thrown' = FALSE
    /\ UNCHANGED <<mode, presets, activePresetId, deleteConfirmId, bePresets,
                   inflight, sent, nextId>>
    /\ PresetFrame

(* PresetEditor "Save Position": rendered whenever showEditor is set *)
handleSaveNewPreset ==
    /\ showEditor
    /\ createPreset(currentPosition.pan, currentPosition.tilt, currentPosition.zoom)
    /\ UNCHANGED <<mode, presets, activePresetId, showEditor, deleteConfirmId>>
    /\ PresetFrame

(* PresetEditor "Cancel" *)
EditorCancel ==
    /\ showEditor
    /\ showEditor' = FALSE
    /\ call' = NoCall /\ thrown' = FALSE
    /\ UNCHANGED <<mode, presets, activePresetId, deleteConfirmId, bePresets,
                   inflight, sent, nextId>>
    /\ PresetFrame

(* variant: the Delete button deletes at once *)
ClickDeletePreset_single ==
    /\ mode = "calibration"
    /\ \E k \in DOMAIN presets :
         /\ deletePreset(presets[k].id)
         /\ UNCHANGED deleteConfirmId
    /\ UNCHANGED <<mode, presets, activePresetId, showEditor>>
    /\ PresetFrame

(* the Delete / Confirm? button of a preset row, rendered in calibration mode *)
ClickDeletePreset ==
    /\ mode = "calibration"
    /\ \E k \in DOMAIN presets :
         IF deleteConfirmId = presets[k].id
         THEN /\ deletePreset(presets[k].id)
              /\ UNCHANGED deleteConfirmId
         ELSE /\ deleteConfirmId' = presets[k].id
              /\ call' = NoCall /\ thrown' = FALSE
              /\ UNCHANGED <<bePresets, inflight, sent, nextId>>
    /\ UNCHANGED <<mode, presets, activePresetId, showEditor>>
    /\ PresetFrame

(* continuations of usePresets, and of the PresetList handlers awaiting them *)
PresetSettled(c) ==
    /\ inflight' = inflight \ {c}
    /\ Done(~c.ok)
    /\ UNCHANGED <<mode, bePresets, sent, nextId>>
    /\ PresetFrame

createPresetReply(c) ==
    /\ c.op = "createPreset"
    /\ IF c.ok
       THEN /\ presets' = Append(c.cap.presets,
                                 Preset(CreatedPresetIds[c.id], c.a[1], c.a[2], c.a[3], c.target))
            /\ showEditor' = FALSE
       ELSE UNCHANGED <<presets, showEditor>>
    /\ UNCHANGED <<activePresetId, deleteConfirmId>>
    /\ PresetSettled(c)

deletePresetReply(c) ==
    /\ c.op = "deletePreset"
    /\ IF c.ok
       THEN LET keep(p) == p.id # c.target
            IN  /\ presets' = SelectSeq(c.cap.presets, keep)
                /\ activePresetId' =
                      IF c.cap.activePresetId = c.target THEN NoId ELSE activePresetId
                /\ deleteConfirmId' = NoId
       ELSE UNCHANGED <<presets, activePresetId, deleteConfirmId>>
    /\ UNCHANGED showEditor
    /\ PresetSettled(c)

PresetReply ==
    \E c \in inflight :
        \/ createPresetReply(c)
        \/ deletePresetReply(c)

RecallReply ==
    /\ \E c \in inflight :
         \/ recallPresetReply(c)
         \/ getPositionReply(c)
    /\ Frame

NextPresets ==
    \/ SetMode
    \/ handleAddPreset
    \/ handleSaveNewPreset
    \/ EditorCancel
    \/ ClickDeletePreset
    \/ PresetListClick
    \/ PresetReply
    \/ RecallReply

SpecPresets == Init /\ [][NextPresets]_vars

(* ---------------- the two stores together ---------------- *)
(* EndpointManager and PresetList (calibration mode) editing their lists *)
NextStores ==
    \/ SaveNewEndpoint
    \/ SaveEditedEndpoint
    \/ ClickDeleteEndpoint
    \/ ClickActivate
    \/ EndpointReply
    \/ BackendEndpoints
    \/ handleAddPreset
    \/ handleSaveNewPreset
    \/ ClickDeletePreset
    \/ PresetReply

SpecStores == Init /\ [][NextStores]_vars

(* ---------------- JoystickPad ---------------- *)
THROTTLE_MS == 50
PAD_SIZE == 160
THUMB_RADIUS == 14
OUTER_RADIUS == PAD_SIZE \div 2

(* the offsets getOffset returns for the pointer positions drawn *)
PadOffsets == {<<OUTER_RADIUS - THUMB_RADIUS, 0>>, <<0, -((OUTER_RADIUS - THUMB_RADIUS) \div 2)>>}

PadFrame == UNCHANGED <<mode, presetVars, endpointVars, obsVars, videoVars, fnVars, settingVars>>

sendMove(x, y) ==
    IF now - lastSendTime < THROTTLE_MS
    THEN /\ call' = NoCall /\ thrown' = FALSE
         /\ UNCHANGED <<now, lastCommandTime, currentPosition, inflight, sent, nextId,
                        camPos, wroteTo, lastSendTime>>
    ELSE LET maxDist == OUTER_RADIUS - THUMB_RADIUS
             panSpeed == RoundDiv(x * Unit, maxDist)
             tiltSpeed == RoundDiv(-y * Unit, maxDist)
         IN  /\ lastSendTime' = now
             /\ continuousMove("JoystickPad", panSpeed, tiltSpeed)

(* pointer down on the pad; the pointer is not down already *)
handlePointerDown ==
    /\ ~active
    /\ active' = TRUE
    /\ \E o \in PadOffsets : sendMove(o[1], o[2])
    /\ PadFrame

(* variant: pointer moves steer the camera whether the pad is dragged or not *)
handlePointerMove_hover ==
    /\ \E o \in PadOffsets : sendMove(o[1], o[2])
    /\ UNCHANGED active
    /\ PadFrame

handlePointerMove ==
    /\ IF ~active
       THEN /\ call' = NoCall /\ thrown' = FALSE
            /\ UNCHANGED <<now, lastCommandTime, currentPosition, inflight, sent, nextId,
                           camPos, wroteTo, lastSendTime>>
       ELSE \E o \in PadOffsets : sendMove(o[1], o[2])
    /\ UNCHANGED active
    /\ PadFrame

(* onPointerUp and onPointerLeave *)
handlePointerUp ==
    /\ active' = FALSE
    /\ stop("JoystickPad")
    /\ UNCHANGED lastSendTime
    /\ PadFrame

PadReply ==
    /\ \E c \in inflight : logOnlyReply(c)
    /\ UNCHANGED panelVars
    /\ PadFrame

NextJoystick ==
    \/ Tick
    \/ handlePointerDown
    \/ handlePointerMove
    \/ handlePointerUp
    \/ PadReply

SpecJoystick == Init /\ [][NextJoystick]_vars

(* ---------------- useVideoFeed / SourcePicker ---------------- *)
VideoFrame == UNCHANGED <<ptzVars, mode, presetVars, endpointVars, obsVars, fnVars, panelVars>>

Media(op, source, n) == [op |-> op, src |-> source, n |-> n]

(* SourcePicker.selectSource, then the connect effect of useVideoFeed: the  *)
(* cleanup of the previous effect (stopCurrentStream) and connectToSource   *)
selectSource(source) ==
    /\ attempts < MaxSelects
    /\ source # activeVideoSource
    /\ activeVideoSource' = source
    /\ attempts' = attempts + 1
    /\ reconnectTimer' = NoSource
    /\ liveStreams' = liveStreams \ {streamRef}
    /\ streamRef' = NoStream
    /\ attached' = NoId
    /\ pendingMedia' = pendingMedia \cup
          {Media(IF source.type = "local" THEN "getUserMedia" ELSE "start_mjpeg_stream",
                 source, attempts + 1)}
    /\ UNCHANGED <<isConnected, available>>

SelectSource ==
    /\ \E source \in VideoSources : selectSource(source)
    /\ VideoFrame

(* handleDisconnect: the "ended" / "error" listener of the video element *)
handleDisconnect ==
    LET source == activeVideoSource
    IN  /\ isConnected' = FALSE
        /\ reconnectTimer' = IF source = NoSource THEN reconnectTimer ELSE source

(* connectToLocalDevice after `await getUserMedia` *)
getUserMediaSettles(m) ==
    /\ m.op = "getUserMedia"
    /\ IF m.src.id \in available
       THEN /\ streamRef' = Stream(m.src.id, "connect", m.n)
            /\ liveStreams' = liveStreams \cup {Stream(m.src.id, "connect", m.n)}
            /\ attached' = m.src.id
            /\ pendingMedia' = (pendingMedia \ {m}) \cup {Media("load", m.src, m.n)}
            /\ UNCHANGED isConnected
       ELSE /\ isConnected' = FALSE
            /\ pendingMedia' = pendingMedia \ {m}
            /\ UNCHANGED <<attached, streamRef, liveStreams>>
    /\ UNCHANGED <<activeVideoSource, reconnectTimer, available, attempts>>

(* connectToSource after `await invoke("start_mjpeg_stream")`: connectToMjpeg, *)
(* which stops the current stream and points the element at the url          *)
startMjpegSettles(m) ==
    /\ m.op = "start_mjpeg_stream"
    /\ \E ok \in BOOLEAN :
         IF ok
         THEN /\ reconnectTimer' = NoSource
              /\ liveStreams' = liveStreams \ {streamRef}
              /\ streamRef' = NoStream
              /\ attached' = m.src.id
              /\ pendingMedia' = (pendingMedia \ {m}) \cup {Media("load", m.src, m.n)}
              /\ UNCHANGED isConnected
         ELSE /\ isConnected' = FALSE
              /\ pendingMedia' = pendingMedia \ {m}
              /\ UNCHANGED <<attached, reconnectTimer, streamRef, liveStreams>>
    /\ UNCHANGED <<activeVideoSource, available, attempts>>

(* the video element loads the attached source: onloadeddata, or for a      *)
(* stream that cannot be fetched onerror and the "error" listener           *)
mediaLoads(m) ==
    /\ m.op = "load"
    /\ IF attached # m.src.id
       THEN /\ pendingMedia' = pendingMedia \ {m}
            /\ UNCHANGED <<isConnected, reconnectTimer>>
       ELSE IF m.src.id \in available
       THEN /\ isConnected' = TRUE
            /\ pendingMedia' = pendingMedia \ {m}
            /\ UNCHANGED reconnectTimer
       ELSE /\ m.src.type = "ndi"
            /\ handleDisconnect
            /\ pendingMedia' = pendingMedia \ {m}
    /\ UNCHANGED <<activeVideoSource, attached, available, streamRef, liveStreams, attempts>>

(* the reconnect interval callback after `await getUserMedia` *)
reconnectSettles(m) ==
    /\ m.op = "reconnect"
    /\ pendingMedia' = pendingMedia \ {m}
    /\ IF m.src.id \in available
       THEN LET latestSource == activeVideoSource
            IN  IF latestSource = NoSource \/ latestSource.id # m.src.id
                THEN /\ reconnectTimer' = NoSource
                     /\ UNCHANGED <<attached, isConnected, streamRef, liveStreams>>
                ELSE /\ reconnectTimer' = NoSource
                     /\ streamRef' = Stream(m.src.id, "reconnect", m.n)
                     /\ liveStreams' = liveStreams \cup {Stream(m.src.id, "reconnect", m.n)}
                     /\ attached' = m.src.id
                     /\ isConnected' = TRUE
       ELSE UNCHANGED <<reconnectTimer, attached, isConnected, streamRef, liveStreams>>
    /\ UNCHANGED <<activeVideoSource, available, attempts>>

MediaSettles ==
    /\ \E m \in pendingMedia :
         \/ getUserMediaSettles(m)
         \/ startMjpegSettles(m)
         \/ mediaLoads(m)
         \/ reconnectSettles(m)
    /\ VideoFrame

(* the playing feed ends or fails: the tracks of the attached stream end   *)
(* and the video element fires ended / error                               *)
FeedLost ==
    /\ attached # NoId /\ attached \in available
    /\ available' = available \ {attached}
    /\ liveStreams' = {st \in liveStreams : st.src # attached}
    /\ handleDisconnect
    /\ UNCHANGED <<activeVideoSource, pendingMedia, attached, streamRef, attempts>>
    /\ VideoFrame

(* the source can deliver video again *)
SourceBack ==
    /\ \E v \in VideoSources :
         /\ v.id \notin available
         /\ available' = available \cup {v.id}
    /\ UNCHANGED <<activeVideoSource, isConnected, reconnectTimer, pendingMedia, attached,
                   streamRef, liveStreams, attempts>>
    /\ VideoFrame

(* the setInterval callback of handleDisconnect, every RECONNECT_INTERVAL_MS *)
intervalCallback ==
    /\ reconnectTimer # NoSource
    /\ LET source == reconnectTimer
           currentSource == activeVideoSource
       IN  IF currentSource = NoSource \/ currentSource.id # source.id
           THEN /\ reconnectTimer' = NoSource
                /\ UNCHANGED pendingMedia
           ELSE IF source.type = "local"
           THEN /\ pendingMedia' = pendingMedia \cup {Media("reconnect", source, attempts)}
                /\ UNCHANGED reconnectTimer
           ELSE UNCHANGED <<reconnectTimer, pendingMedia>>
    /\ UNCHANGED <<activeVideoSource, isConnected, attached, available,
                   streamRef, liveStreams, attempts>>
    /\ VideoFrame

NextVideo ==
    \/ SelectSource
    \/ MediaSettles
    \/ FeedLost
    \/ SourceBack
    \/ intervalCallback

(* the interval keeps firing and pending promises settle *)
SpecVideo ==
    /\ Init
    /\ [][NextVideo]_vars
    /\ WF_vars(intervalCallback)
    /\ WF_vars(MediaSettles)

(* ---------------- overlay-geometry.ts ---------------- *)
camera_fov_degrees == 60

(* variant: the rectangle starts at the shifted offset, without centering *)
overlayOrigin_top(center, normalized, size) == RMul(normalized, center)

(* rectX / rectY: the centre, shifted by the normalized offset, less half the size *)
overlayOrigin(center, normalized, size) ==
    RSub(RAdd(center, RMul(normalized, center)), RDiv(size, FromInt(2)))

(* variant: visible only when the rectangle lies wholly inside the viewport *)
overlayVisible_contained(rectX, rectY, rectWidth, rectHeight, w, h) ==
    /\ RLe(FromInt(0), rectX)
    /\ RLe(RAdd(rectX, rectWidth), FromInt(w))
    /\ RLe(FromInt(0), rectY)
    /\ RLe(RAdd(rectY, rectHeight), FromInt(h))

overlayVisible(rectX, rectY, rectWidth, rectHeight, w, h) ==
    /\ RLt(FromInt(0), RAdd(rectX, rectWidth))
    /\ RLt(rectX, FromInt(w))
    /\ RLt(FromInt(0), RAdd(rectY, rectHeight))
    /\ RLt(rectY, FromInt(h))

calculateOverlayRect(preset, currentPan, currentTilt, currentZoom, cameraFovDegrees, w, h) ==
    LET fov == FromInt(cameraFovDegrees)
        currentFov == RMul(fov, RSub(FromInt(1), RMul(FromFixed(currentZoom), Rat(9, 10))))
        presetFov == RMul(fov, RSub(FromInt(1), RMul(FromFixed(preset.zoom), Rat(9, 10))))
        aspectRatio == Rat(w, h)
        panOffset == FromFixed(preset.pan - currentPan)
        tiltOffset == FromFixed(preset.tilt - currentTilt)
        normalizedX == RDiv(panOffset, RDiv(currentFov, fov))
        normalizedY == RDiv(RNeg(tiltOffset), RDiv(currentFov, fov))
        relativeWidth == RDiv(presetFov, currentFov)
        relativeHeight == RDiv(relativeWidth, aspectRatio)
        centerX == Rat(w, 2)
        centerY == Rat(h, 2)
        rectWidth == RMul(relativeWidth, FromInt(w))
        rectHeight == RMul(relativeHeight, FromInt(h))
        rectX == overlayOrigin(centerX, normalizedX, rectWidth)
        rectY == overlayOrigin(centerY, normalizedY, rectHeight)
    IN  [x |-> rectX, y |-> rectY, width |-> rectWidth, height |-> rectHeight,
         visible |-> overlayVisible(rectX, rectY, rectWidth, rectHeight, w, h)]

(* the calls PresetOverlay makes when it renders *)
Viewports == {<<canvasWidth, canvasHeight>>, <<canvasHeight, canvasHeight>>}

OverlayPresets ==
    {Preset("p1", p, t, z, PRESET_COLORS[1]) :
        p \in {0, 2, 10, Unit}, t \in {0, 10, Unit}, z \in {0, Unit \div 2}}

OverlayArgs ==
    [fn : {"calculateOverlayRect"}, preset : OverlayPresets,
     currentPan : {-Unit, 0}, currentTilt : {-Unit, 0},
     currentZoom : {0, Unit \div 2, Unit - Unit \div 10},
     cameraFovDegrees : {camera_fov_degrees, camera_fov_degrees \div 2},
     viewport : Viewports]

CallOverlayRect ==
    /\ fnArgs.fn = "calculateOverlayRect"
    /\ fnResult = NoResult
    /\ fnResult' = [fn |-> fnArgs.fn,
                    rect |-> calculateOverlayRect(fnArgs.preset, fnArgs.currentPan,
                                 fnArgs.currentTilt, fnArgs.currentZoom,
                                 fnArgs.cameraFovDegrees,
                                 fnArgs.viewport[1], fnArgs.viewport[2])]
    /\ UNCHANGED <<fnArgs, ptzVars, mode, presetVars, endpointVars, obsVars, videoVars, panelVars>>

(* the calls of calculateClickVector: clicks on the corners, edges and centre *)
ClickArgs ==
    [fn : {"calculateClickVector"}, viewport : Viewports,
     at : {<<0, 0>>, <<1, 0>>, <<1, 1>>, <<2, 0>>, <<2, 1>>, <<2, 2>>, <<3, 1>>},
     sensitivity : {click_sensitivity, Unit},
     currentZoom : {0, Unit \div 2, Unit}]

(* the click at = <<a, b>> lies at (a * w / 2, b * h / 2), 3 standing for 3/4 *)
ClickX(a, w) == IF a = 3 THEN (3 * w) \div 4 ELSE (a * w) \div 2

CallClickVector ==
    /\ fnArgs.fn = "calculateClickVector"
    /\ fnResult = NoResult
    /\ LET w == fnArgs.viewport[1]
           h == fnArgs.viewport[2]
       IN  fnResult' = [fn |-> fnArgs.fn,
                        v |-> calculateClickVector(ClickX(fnArgs.at[1], w),
                                  ClickX(fnArgs.at[2], h), w, h,
                                  fnArgs.sensitivity, fnArgs.currentZoom)]
    /\ UNCHANGED <<fnArgs, ptzVars, mode, presetVars, endpointVars, obsVars, videoVars, panelVars>>

(* the calls of clampPtz: values inside, on and outside the range, in hundredths *)
ClampValues == {-2 * Unit, -Unit - 1, -Unit, -(Unit \div 2), 0, Unit \div 2, Unit, Unit + 1, 5 * Unit}
ClampBounds == {-Unit, 0, Unit \div 2, Unit}
ClampArgs == [fn : {"clampPtz"}, value : ClampValues, min : ClampBounds, max : ClampBounds]

CallClamp ==
    /\ fnArgs.fn = "clampPtz"
    /\ fnResult = NoResult
    /\ LET once == clampPtz(fnArgs.value, fnArgs.min, fnArgs.max)
       IN  fnResult' = [fn |-> fnArgs.fn, once |-> once,
                        twice |-> clampPtz(once, fnArgs.min, fnArgs.max)]
    /\ UNCHANGED <<fnArgs, ptzVars, mode, presetVars, endpointVars, obsVars, videoVars, panelVars>>

InitUtils ==
    /\ Booted
    /\ \/ fnArgs \in OverlayArgs
       \/ fnArgs \in ClickArgs
       \/ fnArgs \in ClampArgs
    /\ fnResult = NoResult

NextUtils ==
    \/ CallOverlayRect
    \/ CallClickVector
    \/ CallClamp

SpecUtils == InitUtils /\ [][NextUtils]_vars

(* ---------------- PresetOverlay ---------------- *)
(* PresetOverlay.handlePresetClick, on the rectangle of a preset that is drawn *)
PresetOverlayClick ==
    /\ \E k \in DOMAIN presets :
         /\ calculateOverlayRect(presets[k], currentPosition.pan, currentPosition.tilt,
                                 currentPosition.zoom, camera_fov_degrees,
                                 canvasWidth, canvasHeight).visible
         /\ activePresetId' = presets[k].id
         /\ IF mode = "operation"
            THEN recallPreset("PresetOverlay", presets[k].id)
            ELSE /\ call' = NoCall /\ thrown' = FALSE
                 /\ UNCHANGED <<now, lastCommandTime, currentPosition, inflight,
                                sent, nextId, camPos, wroteTo>>
    /\ UNCHANGED <<mode, presets, showEditor, deleteConfirmId, bePresets, endpointVars, obsVars,
                   videoVars, panelVars, fnVars>>

(* the video canvas, the overlays and the preset list, in both modes *)
NextModes ==
    \/ Tick
    \/ SetMode
    \/ CanvasClick
    \/ CanvasWheel
    \/ PresetListClick
    \/ PresetOverlayClick
    \/ Reply

SpecModes == Init /\ [][NextModes]_vars

(* ------------------------------ SettingsPanel ------------------------------ *)

SettingKeys == DOMAIN DefaultSettings
SettingValues == {Number(20), Number(40), NaN}

SettingsFrame ==
    UNCHANGED <<ptzVars, mode, presetVars, endpointVars, obsVars, videoVars, fnVars,
                active, lastSendTime>>

(* the mock backend's update_settings: merge, or the invoke rejects *)
update_settings(key, value, ok) ==
    beSettings' = IF ok THEN [beSettings EXCEPT ![key] = value] ELSE beSettings

(* SettingsPanel.updateSetting up to `await invoke("update_settings")` *)
updateSetting(key, value) ==
    /\ settingCalls < MaxSettingCalls
    /\ settingCalls' = settingCalls + 1
    /\ IF ~value.finite
       THEN UNCHANGED <<settings, beSettings, pendingSettings>>
       ELSE LET previousSettings == settings
                newSettings == [settings EXCEPT ![key] = value.v]
            IN  /\ settings' = newSettings
                /\ \E ok \in BOOLEAN :
                     /\ update_settings(key, value.v, ok)
                     /\ pendingSettings' = pendingSettings \cup
                           {[n |-> settingCalls + 1, key |-> key, value |-> value.v,
                             previousSettings |-> previousSettings, ok |-> ok]}

(* SettingsPanel.updateSetting after the await: the catch block *)
updateSettingReply(r) ==
    /\ pendingSettings' = pendingSettings \ {r}
    /\ settings' = IF r.ok THEN settings ELSE r.previousSettings
    /\ UNCHANGED <<beSettings, settingCalls>>

SliderChange ==
    /\ \E key \in SettingKeys, value \in SettingValues : updateSetting(key, value)
    /\ SettingsFrame

SettingsReply ==
    /\ \E r \in pendingSettings : updateSettingReply(r)
    /\ SettingsFrame

NextSettings ==
    \/ SliderChange
    \/ SettingsReply

SpecSettings == Init /\ [][NextSettings]_vars

(* ------- specification: the hook against the e2e mock backend ------- *)
(* the mock's invoke looks the handler up and returns its result: no       *)
(* command is rejected                                                     *)
NoneRejected == \A c \in inflight : c.ok

(* move_relative, move_absolute, zoom, scroll-zoom and recall_preset *)
NextMock ==
    /\ \/ Tick
       \/ SetMode
       \/ PtzButton
       \/ PtzZoom
       \/ KeyArrow
       \/ KeyZoom
       \/ KeyDigit
       \/ CanvasClick
       \/ CanvasWheel
       \/ PresetListClick
       \/ CallMoveAbsolute
       \/ Reply
    /\ NoneRejected'

SpecMock == Init /\ [][NextMock]_vars

(* ------- specification: two moveRelative calls, with their observer ------- *)
Observe ==
    /\ p0' = p0
    /\ moves' = IF inflight' \ inflight = {} THEN moves
                ELSE LET r == CHOOSE q \in inflight' \ inflight : TRUE
                     IN  Append(moves, [a |-> r.a, ok |-> r.ok, at |-> now])

ObsPtzButton ==
    /\ PtzButtonClick
    /\ FrameUI
    /\ Observe

ObsKeyArrow ==
    /\ KeyArrowDown
    /\ FrameUI
    /\ Observe

MoveReply ==
    /\ \E c \in inflight : moveRelativeReply(c)
    /\ Frame

NextMoves ==
    \/ Tick
    \/ ObsPtzButton
    \/ ObsKeyArrow
    \/ MoveReply

SpecMoves == Init /\ [][NextMoves]_vars

(* ======================= the claims ======================= *)
ThrottledCmds == {"ptz_move_relative", "ptz_move_absolute", "ptz_zoom",
                  "ptz_continuous_move"}

(* the last throttled command that instance j wrote to the backend: it was *)
(* accepted at lastCommandTime[j]                                          *)
LastAccepted(j) ==
    LET idx == {k \in DOMAIN sent : sent[k].inst = j /\ sent[k].cmd \in ThrottledCmds}
    IN  IF idx = {} THEN "none"
        ELSE sent[CHOOSE k \in idx : \A m \in idx : m <= k].cmd

IsCall(op) == nextId' # nextId /\ call'.op = op

MoveAcceptedRecently ==
    \E j \in Instances :
        /\ LastAccepted(j) = "ptz_move_relative"
        /\ now - lastCommandTime[j] < MIN_COMMAND_INTERVAL_MS

(* C1: a moveRelative call issued less than 100 ms after an accepted        *)
(* moveRelative call, whichever components issue the two, is dropped: it    *)
(* writes nothing to the backend, leaves nothing pending and leaves         *)
(* currentPosition unchanged.                                               *)
C1_SecondMoveDropped ==
    [][(IsCall("moveRelative") /\ MoveAcceptedRecently)
         => (sent' = sent /\ inflight' = inflight /\ currentPosition' = currentPosition)]_vars

(* C2: every call of stop() writes ptz_stop to the backend and every call   *)
(* of recallPreset() writes ptz_recall_preset, whatever the time since the  *)
(* last accepted command.                                                   *)
C2_StopRecallNeverThrottled ==
    [][\A op \in {"stop", "recallPreset"} :
         IsCall(op) =>
            /\ Len(sent') = Len(sent) + 1
            /\ SubSeq(sent', 1, Len(sent)) = sent
            /\ sent'[Len(sent')].cmd = (IF op = "stop" THEN "ptz_stop" ELSE "ptz_recall_preset")
            /\ \E r \in inflight' \ inflight : r.cmd = sent'[Len(sent')].cmd]_vars

(* stop() was called by the keyboard less than 100 ms after the keyboard's  *)
(* last accepted command, and ptz_stop is the last command written          *)
C2_Witness ==
    /\ call.op = "stop"
    /\ lastCommandTime["KeyboardShortcuts"] > 0
    /\ now - lastCommandTime["KeyboardShortcuts"] < MIN_COMMAND_INTERVAL_MS
    /\ Len(sent) = 2
    /\ sent[2].cmd = "ptz_stop"

(* C3: two moveRelative calls accepted at least 100 ms apart: once both     *)
(* backend calls have succeeded, pan = clamp(clamp(p0 + d1) + d2), and tilt *)
(* likewise.                                                                *)
C3_BothMovesApplied ==
    (/\ Len(moves) = 2
     /\ moves[2].at - moves[1].at >= MIN_COMMAND_INTERVAL_MS
     /\ moves[1].ok /\ moves[2].ok
     /\ inflight = {})
    => /\ currentPosition.pan =
            clampPtz(clampPtz(p0.pan + moves[1].a[1], -Unit, Unit) + moves[2].a[1], -Unit, Unit)
       /\ currentPosition.tilt =
            clampPtz(clampPtz(p0.tilt + moves[1].a[2], -Unit, Unit) + moves[2].a[2], -Unit, Unit)

(* C4: currentPosition always has pan and tilt in [-1,1] and zoom in [0,1]. *)
C4_PositionInRange == InRange(currentPosition)

(* C5: an accepted moveRelative, moveAbsolute or zoom call updates          *)
(* currentPosition in the step that issues it, to the delta or target       *)
(* applied and clamped, without waiting for the reply.                      *)
Optimistic(pos, r) ==
    CASE r.cmd = "ptz_move_relative" ->
            Pos(clampPtz(pos.pan + r.a[1], -Unit, Unit),
                clampPtz(pos.tilt + r.a[2], -Unit, Unit), pos.zoom)
      [] r.cmd = "ptz_move_absolute" ->
            Pos(clampPtz(r.a[1], -Unit, Unit), clampPtz(r.a[2], -Unit, Unit),
                clampPtz(r.a[3], 0, Unit))
      [] r.cmd = "ptz_zoom" -> [pos EXCEPT !.zoom = clampPtz(r.a[1], 0, Unit)]
      [] OTHER -> pos

C5_OptimisticUpdate ==
    [][\A op \in {"moveRelative", "moveAbsolute", "zoom"} :
         (IsCall(op) /\ sent' # sent) =>
            \A r \in inflight' \ inflight :
                currentPosition' = Optimistic(currentPosition, r)]_vars

(* C6: when ptz_recall_preset or the position query after it fails, the     *)
(* promise of recallPreset is rejected, so that its caller sees the error.  *)
C6_RecallErrorPropagates ==
    [][\A c \in inflight :
         (c.op = "recallPreset" /\ ~c.ok /\ c \notin inflight') => thrown']_vars

(* C7: when the ptz_get_position reply of recallPreset is applied,          *)
(* currentPosition becomes exactly the replied position, in its three       *)
(* fields, whatever updates were applied before or are still pending.       *)
C7_ReplyOverwrites ==
    [][\A c \in inflight :
         (c.cmd = "ptz_get_position" /\ c.ok /\ c \notin inflight')
            => currentPosition' = c.pos]_vars

(* the reply of a recall has been applied over the optimistic zoom of a     *)
(* wheel event whose ptz_zoom call is still pending                         *)
C7_Witness ==
    /\ \E k \in DOMAIN sent : sent[k].cmd = "ptz_get_position"
    /\ \E c \in inflight : c.op = "handleVideoScroll"
    /\ \A c \in inflight : c.op # "recallPreset"
    /\ currentPosition # p0
    /\ currentPosition = camPos
    /\ \E k \in DOMAIN presets : currentPosition.pan = presets[k].pan

(* C8: at most one endpoint of the list is the active one, and when a       *)
(* deleteEndpoint(id) call succeeds, id leaves the endpoint list and        *)
(* activeEndpointId becomes null if it was id and is unchanged otherwise.   *)
ActiveEntries == {k \in DOMAIN endpoints : endpoints[k].id = activeEndpointId}

C9_OneLiveTransport ==
    /\ [](/\ Cardinality(transports) <= 1
          /\ (beActive # NoId => transports = {beActive}))
    /\ [][\A r \in inflight' \ inflight :
            (r.cmd = "ptz_stop" /\ r.ok) => (wroteTo' \in transports /\ wroteTo' = beActive)]_vars

(* endpoint e2 was activated while e1 was active, and a command was         *)
(* written to e2, the only live transport                                   *)
C9_Witness ==
    /\ activeEndpointId = "e2"
    /\ beActive = "e2"
    /\ transports = {"e2"}
    /\ wroteTo = "e2"

(* C10: no preset editing in operation mode: no create_preset and no        *)
(* delete_preset command is issued while mode = operation.                  *)
EditCmds == {"create_preset", "delete_preset"}

C10_NoEditInOperation ==
    [][(sent' # sent /\ sent'[Len(sent')].cmd \in EditCmds) => mode # "operation"]_vars

(* C11: after the feed of the active source was lost (reconnect interval    *)
(* running) and the source delivers video again, isConnected eventually     *)
(* returns to true, unless the source fails again or another source is      *)
(* selected; this for every kind of source.                                 *)
C11_ReconnectsEventually ==
    \A v \in VideoSources :
        (reconnectTimer = v /\ activeVideoSource = v /\ ~isConnected /\ v.id \in available)
            ~> (isConnected \/ v.id \notin available \/ activeVideoSource # v)

(* C12: every operation that changes position or velocity, other than stop  *)
(* and recallPreset, is dropped (nothing is sent for it) when the component *)
(* issuing it had a command accepted less than 100 ms before.               *)
ThrottledOps == {"moveRelative", "moveAbsolute", "zoom", "handleVideoScroll",
                 "continuousMove", "home"}

C12_OnlyStopRecallExempt ==
    [][\A op \in ThrottledOps :
         (/\ IsCall(op)
          /\ call'.inst \in Instances
          /\ lastCommandTime[call'.inst] > 0
          /\ now - lastCommandTime[call'.inst] < MIN_COMMAND_INTERVAL_MS)
            => (sent' = sent /\ inflight' = inflight)]_vars

(* C13 (as stated): for a preset at pan=0, tilt=0, zoom=0 viewed from the   *)
(* identical position the rectangle has x=0, y=0, the width of the          *)
(* viewport, visible=true, and for 800x600 the height 450.                  *)
IdenticalView ==
    /\ fnResult.fn = "calculateOverlayRect"
    /\ fnArgs.preset.pan = 0 /\ fnArgs.preset.tilt = 0 /\ fnArgs.preset.zoom = 0
    /\ fnArgs.currentPan = 0 /\ fnArgs.currentTilt = 0 /\ fnArgs.currentZoom = 0

C13_CoversViewportAtOrigin ==
    IdenticalView =>
        LET r == fnResult.rect
            w == fnArgs.viewport[1]
            h == fnArgs.viewport[2]
        IN  /\ r.x = FromInt(0) /\ r.y = FromInt(0)
            /\ r.width = FromInt(w)
            /\ r.visible
            /\ (w = 800 /\ h = 600) => r.height = FromInt(450)

(* C13 (amended): in that case the rectangle spans the full width of the    *)
(* viewport, has height h*h/w and is centred vertically, y = (h - h*h/w)/2, *)
(* visible=true; for 800x600: x=0, y=75, width=800, height=450.             *)
C13_FullWidthCentred ==
    IdenticalView =>
        LET r == fnResult.rect
            w == fnArgs.viewport[1]
            h == fnArgs.viewport[2]
        IN  /\ r.x = FromInt(0)
            /\ r.width = FromInt(w)
            /\ r.height = Rat(h * h, w)
            /\ r.y = Rat(h * w - h * h, 2 * w)
            /\ r.visible
            /\ (w = 800 /\ h = 600) =>
                  (r.y = FromInt(75) /\ r.height = FromInt(450))

C13_Witness ==
    /\ IdenticalView
    /\ fnArgs.viewport = <<800, 600>>
    /\ fnResult.rect.y = FromInt(75)
    /\ fnResult.rect.height = FromInt(450)
    /\ fnResult.rect.visible

(* C14 (as stated): visible is true exactly when the rectangle intersects   *)
(* the viewport [0,w] x [0,h] (closed intervals); a preset at pan=1, tilt=1 *)
(* viewed from pan=-1, tilt=-1 at zoom=0.9 is not visible.                  *)
FarOffView ==
    /\ fnArgs.preset.pan = Unit /\ fnArgs.preset.tilt = Unit
    /\ fnArgs.currentPan = -Unit /\ fnArgs.currentTilt = -Unit
    /\ fnArgs.currentZoom = Unit - Unit \div 10

Touches(lo1, hi1, lo2, hi2) == RLe(RMax(lo1, lo2), RMin(hi1, hi2))

Overlaps(lo1, hi1, lo2, hi2) == RLt(RMax(lo1, lo2), RMin(hi1, hi2))

C14_VisibleIffIntersects ==
    fnResult.fn = "calculateOverlayRect" =>
        LET r == fnResult.rect
            w == FromInt(fnArgs.viewport[1])
            h == FromInt(fnArgs.viewport[2])
        IN  /\ r.visible <=> (/\ Touches(r.x, RAdd(r.x, r.width), FromInt(0), w)
                              /\ Touches(r.y, RAdd(r.y, r.height), FromInt(0), h))
            /\ FarOffView => ~r.visible

(* C14 (amended): visible is true exactly when the rectangle and the        *)
(* viewport overlap in an area (strict inequalities): a rectangle that only *)
(* touches an edge of the viewport is not visible; the far-off example is   *)
(* not visible.                                                             *)
C14_VisibleIffOverlaps ==
    fnResult.fn = "calculateOverlayRect" =>
        LET r == fnResult.rect
            w == FromInt(fnArgs.viewport[1])
            h == FromInt(fnArgs.viewport[2])
        IN  /\ r.visible <=> (/\ Overlaps(r.x, RAdd(r.x, r.width), FromInt(0), w)
                              /\ Overlaps(r.y, RAdd(r.y, r.height), FromInt(0), h))
            /\ FarOffView => ~r.visible

(* a rectangle partly outside the viewport on the right, and visible *)
C14_Witness ==
    /\ fnResult.fn = "calculateOverlayRect"
    /\ fnArgs.preset.pan = 2 /\ fnArgs.currentPan = 0
    /\ RLt(FromInt(0), fnResult.rect.x)
    /\ RLt(FromInt(fnArgs.viewport[1]), RAdd(fnResult.rect.x, fnResult.rect.width))
    /\ fnResult.rect.visible

(* C15: calculateClickVector returns pan_delta = ((x - w/2)/(w/2)) * s * zf *)
(* and tilt_delta = ((h/2 - y)/(h/2)) * s * zf with zf = 1/(1 + 4z); the    *)
(* centre yields (0, 0), the top-right corner with s = 1 yields (1, 1) at   *)
(* z = 0 and (0.2, 0.2) at z = 1.                                           *)
C15_ClickVectorFormula ==
    fnResult.fn = "calculateClickVector" =>
        LET w == fnArgs.viewport[1]
            h == fnArgs.viewport[2]
            x == ClickX(fnArgs.at[1], w)
            y == ClickX(fnArgs.at[2], h)
            sens == fnArgs.sensitivity
            z == fnArgs.currentZoom
            v == fnResult.v
        IN  /\ v.panDelta = Rat((2 * x - w) * sens, w * (Unit + 4 * z))
            /\ v.tiltDelta = Rat((h - 2 * y) * sens, h * (Unit + 4 * z))
            /\ (2 * x = w /\ 2 * y = h) =>
                  (v.panDelta = FromInt(0) /\ v.tiltDelta = FromInt(0))
            /\ (x = w /\ y = 0 /\ sens = Unit /\ z = 0) =>
                  (v.panDelta = FromInt(1) /\ v.tiltDelta = FromInt(1))
            /\ (x = w /\ y = 0 /\ sens = Unit /\ z = Unit) =>
                  (v.panDelta = Rat(1, 5) /\ v.tiltDelta = Rat(1, 5))

(* the top-right corner clicked at full zoom with sensitivity 1 *)
C15_Witness ==
    /\ fnResult.fn = "calculateClickVector"
    /\ fnArgs.at = <<2, 0>> /\ fnArgs.sensitivity = Unit /\ fnArgs.currentZoom = Unit
    /\ fnResult.v = [panDelta |-> Rat(1, 5), tiltDelta |-> Rat(1, 5)]

(* C16: for min <= max, clamp returns p when p is in [min, max] and the     *)
(* nearer bound when p is outside it, and clamp(clamp(p)) = clamp(p).       *)
C16_ClampContract ==
    (fnResult.fn = "clampPtz" /\ fnArgs.min <= fnArgs.max) =>
        /\ (fnArgs.min <= fnArgs.value /\ fnArgs.value <= fnArgs.max)
               => fnResult.once = fnArgs.value
        /\ fnArgs.value < fnArgs.min => fnResult.once = fnArgs.min
        /\ fnArgs.value > fnArgs.max => fnResult.once = fnArgs.max
        /\ fnResult.twice = fnResult.once

(* a value above the range [-1, 1] clamped to the upper bound *)
C16_Witness ==
    /\ fnResult.fn = "clampPtz"
    /\ fnArgs.min = -Unit /\ fnArgs.max = Unit /\ fnArgs.value = 5 * Unit
    /\ fnResult.once = Unit /\ fnResult.twice = Unit

(* C17: after any sequence of createPreset, updatePreset and deletePreset   *)
(* calls the store's preset list holds the surviving presets, those created *)
(* and not deleted, in the order in which they were created.  Stated once   *)
(* every call has settled; bePresets is the list the backend keeps in       *)
(* insertion order.                                                         *)
PresetOps == {"createPreset", "deletePreset"}

C17_SurvivorsInInsertionOrder ==
    (\A c \in inflight : c.op \notin PresetOps) => presets = bePresets

(* C18: delete_preset for preset P is issued only when P's Delete button is *)
(* clicked while P is the preset pending confirmation (a second click on    *)
(* it); the click that makes P pending issues nothing.                      *)
C18_DeleteOnlyAfterConfirm ==
    [][/\ \A c \in inflight' \ inflight :
             c.cmd = "delete_preset" => (deleteConfirmId = c.target /\ c.target # NoId)
       /\ (deleteConfirmId' # deleteConfirmId /\ deleteConfirmId' # NoId)
             => (sent' = sent /\ inflight' = inflight /\ bePresets' = bePresets)]_vars

(* the loaded preset deleted by two clicks on its Delete button *)
C18_Witness ==
    /\ sent = <<Wire("delete_preset", "PresetList")>>
    /\ presets = <<>> /\ bePresets = <<>>
    /\ deleteConfirmId = NoId
    /\ inflight = {}

(* C19: after any sequence of createPreset and deletePreset calls that      *)
(* leaves at most 15 presets, no two presets in the list have the same      *)
(* colour.                                                                  *)
C19_DistinctColours ==
    Len(presets) <= Len(PRESET_COLORS) =>
        \A j, k \in DOMAIN presets : j # k => presets[j].color # presets[k].color

(* C20: only accepted commands advance the last-command timestamp.  A call  *)
(* of a throttled function less than 100 ms after the instance's timestamp  *)
(* is dropped and leaves the timestamp unchanged; a call at least 100 ms    *)
(* after it is accepted (written to the backend) and stamps the time; and   *)
(* no step changes a timestamp without writing a command of that instance.  *)
ThrottleCallers == {"moveRelative", "moveAbsolute", "zoom"}

ZoomCallers == {"zoom", "handleVideoScroll"}

NoZoomAccepted == \A k \in DOMAIN sent : sent[k].cmd # "ptz_zoom"

C21_ThrottlePerKind ==
    [][((\E op \in ZoomCallers : IsCall(op)) /\ NoZoomAccepted)
          => (/\ Len(sent') = Len(sent) + 1
              /\ sent'[Len(sent')].cmd = "ptz_zoom")]_vars

(* C22: releasing the joystick (pointer up or pointer leave) always writes  *)
(* stop to the backend, whatever the throttle state, and no continuous_move *)
(* is written while the pad is not dragged: whenever the pad is released,   *)
(* the last command it wrote, if any, is stop.                              *)
PadSent == LET mine(w) == w.inst = "JoystickPad" IN SelectSeq(sent, mine)

C22_ReleaseSendsStop ==
    [][/\ (IsCall("stop") /\ call'.inst = "JoystickPad")
            => sent' = Append(sent, Wire("ptz_stop", "JoystickPad"))
       /\ (active /\ ~active') => sent' = Append(sent, Wire("ptz_stop", "JoystickPad"))
       /\ (Len(sent') > Len(sent) /\ sent'[Len(sent')] = Wire("ptz_continuous_move", "JoystickPad"))
            => active'
       /\ ~active' => (PadSent' = <<>> \/ PadSent'[Len(PadSent')].cmd = "ptz_stop")]_vars

(* a drag released inside the throttle window of its continuous_move *)
C22_Witness ==
    /\ sent = <<Wire("ptz_continuous_move", "JoystickPad"), Wire("ptz_stop", "JoystickPad")>>
    /\ ~active
    /\ now - lastCommandTime["JoystickPad"] < MIN_COMMAND_INTERVAL_MS

(* C23: in calibration mode a click on the video canvas issues no PTZ       *)
(* command and leaves currentPosition unchanged, and a click on a preset,   *)
(* in the list or on its overlay, only sets activePresetId; in operation    *)
(* mode the preset click sets activePresetId and issues recall_preset for   *)
(* that preset, and the canvas click issues move_relative.                  *)
PresetClick == PresetListClick \/ PresetOverlayClick

Quiet == sent' = sent /\ inflight' = inflight /\ currentPosition' = currentPosition

PresetClickByMode ==
    /\ (PresetClick /\ mode = "calibration") =>
          (activePresetId' \in {presets[k].id : k \in DOMAIN presets} /\ Quiet)
    /\ (PresetClick /\ mode = "operation") =>
          /\ Len(sent') = Len(sent) + 1
          /\ sent'[Len(sent')].cmd = "ptz_recall_preset"
          /\ \E c \in inflight' \ inflight :
                c.cmd = "ptz_recall_preset" /\ c.target = activePresetId'
          /\ activePresetId' \in {presets[k].id : k \in DOMAIN presets}

StoreOps == {"createEndpoint", "updateEndpoint", "deleteEndpoint", "setActiveEndpoint",
             "createPreset", "deletePreset"}

Settles(c) == c \in inflight /\ \A d \in inflight' : d.id # c.id

C25_NoPresetChangeLost ==
    (\A c \in inflight : c.op \notin PresetOps) => Ids(presets) = Ids(bePresets)

(* C26: once no endpoint call is in flight, activeEndpointId is null or the *)
(* id of an endpoint in the store's endpoint list, for every interleaving   *)
(* of setActiveEndpoint and deleteEndpoint.                                 *)
EndpointOps == {"createEndpoint", "updateEndpoint", "deleteEndpoint", "setActiveEndpoint"}

C26_ActiveEndpointInList ==
    (\A c \in inflight : c.op \notin EndpointOps) =>
        (activeEndpointId = NoId \/ activeEndpointId \in Ids(endpoints))

(* C27: once no preset call is in flight, activePresetId is null or the id  *)
(* of a preset in the store's preset list, including when a preset is       *)
(* selected while its deletion is in flight.                                *)
C27_ActivePresetInList ==
    (\A c \in inflight : c.op \notin PresetOps) =>
        (activePresetId = NoId \/ activePresetId \in Ids(presets))

(* C28: when the active video source changes while a connection attempt for *)
(* the previous source is still in flight, then once all attempts have      *)
(* completed what the video element is attached to is of the current active *)
(* source (nothing and not connected if there is no source), and every      *)
(* stream acquired other than the one held has had its tracks stopped.      *)
C28_CurrentSourceAttached ==
    pendingMedia = {} =>
        /\ attached \in {NoId, activeVideoSource.id}
        /\ streamRef.src \in {NoId, activeVideoSource.id}
        /\ liveStreams \subseteq {streamRef}
        /\ activeVideoSource = NoSource => ~isConnected

(* C29: once all in-flight updateSetting calls have completed, the store's   *)
(* settings are the defaults with exactly the updates the backend accepted   *)
(* applied, which is what the backend holds: accepted updates are kept and   *)
(* rejected ones rolled back, whatever the order the calls settle in.        *)
C29_SettingsMatchAccepted ==
    pendingSettings = {} =>
        \A key \in SettingKeys :
            settings[key] = IF beSettings[key] # MockSettings[key]
                            THEN beSettings[key]
                            ELSE DefaultSettings[key]

(* C30: against a backend that handles every command as the e2e mock does,  *)
(* whenever no operation is in flight the store's currentPosition equals    *)
(* the backend's position, for every sequence and interleaving of the PTZ   *)
(* operations.                                                              *)
C30_PositionTracksBackend ==
    inflight = {} => currentPosition = camPos

====
